---------------------------- MODULE Spec2Model ----------------------------
(***************************************************************************)
(* A model of the entropy-based Wordle solver (wordle.py, top_starters.py). *)
(*                                                                         *)
(* Words are 5-tuples of one-letter strings.  A feedback pattern is the    *)
(* packed integer of wordle.py: 2 bits per position, position 0 in the     *)
(* most significant field (00 gray, 01 yellow, 10 green).                  *)
(***************************************************************************)
EXTENDS Integers, Sequences, FiniteSets, TLC

\* ------------------------------------------------------------------------
\* Program constants
\* ------------------------------------------------------------------------

\* range(5): the fixed word length of get_feedback and parse_feedback.
WordLen == 5

\* The all-green pattern the session loop compares against.
\* A pattern constant that is off in its last field: green x4, then gray.
AllGreenButLast == 2 * 340

AllGreen == 682

\* attempts = 6 in wordle_bot.
Attempts == 6

\* Python's None (a removed target letter, a missing file, no value yet).
None == "None"

\* ------------------------------------------------------------------------
\* Bounds of the model
\* ------------------------------------------------------------------------

\* The exhaustive feedback check draws every guess over the first NumLetters
\* letters and every target over the first NumLetters + 1 letters.
NumLetters == 2

Letters == <<"a", "b", "c", "d", "e", "f">>

GuessAlphabet == {Letters[i] : i \in 1..NumLetters}

TargetAlphabet == {Letters[i] : i \in 1..(NumLetters + 1)}

\* ------------------------------------------------------------------------
\* Named words
\* ------------------------------------------------------------------------

abcde == <<"a", "b", "c", "d", "e">>
edcba == <<"e", "d", "c", "b", "a">>
aabbb == <<"a", "a", "b", "b", "b">>
ababa == <<"a", "b", "a", "b", "a">>
close == <<"c", "l", "o", "s", "e">>

ScenarioWords == {abcde, edcba, aabbb, ababa, close}

\* All words of WordLen letters over the alphabets of the model.
GuessWords == [1..WordLen -> GuessAlphabet]

TargetWords == [1..WordLen -> TargetAlphabet]

\* ------------------------------------------------------------------------
\* Integer bit operations (Python's <<, >>, |, & on non-negative ints)
\* ------------------------------------------------------------------------

RECURSIVE Pow2(_)
Pow2(n) == IF n = 0 THEN 1 ELSE 2 * Pow2(n - 1)

Shl(x, n) == x * Pow2(n)

Shr(x, n) == x \div Pow2(n)

RECURSIVE BitOr(_, _)
BitOr(x, y) ==
    IF x = 0 THEN y
    ELSE IF y = 0 THEN x
    ELSE (IF (x % 2 = 1) \/ (y % 2 = 1) THEN 1 ELSE 0)
         + 2 * BitOr(x \div 2, y \div 2)

RECURSIVE BitAnd(_, _)
BitAnd(x, y) ==
    IF x = 0 \/ y = 0 THEN 0
    ELSE (IF (x % 2 = 1) /\ (y % 2 = 1) THEN 1 ELSE 0)
         + 2 * BitAnd(x \div 2, y \div 2)

\* A shift that forgets the factor 2 of the 2-bit fields.
FieldShiftUnscaled(i) == 4 - i

\* The shift of position i (0-based): 2 * (4 - i).
FieldShift(i) == 2 * (4 - i)

\* The 2-bit field of position i: (feedback & (3 << s)) >> s.
Field(feedback, i) == Shr(BitAnd(feedback, Shl(3, FieldShift(i))), FieldShift(i))

\* ------------------------------------------------------------------------
\* Python list helpers (0-based index i is element i + 1 of the sequence)
\* ------------------------------------------------------------------------

Range(s) == {s[k] : k \in 1..Len(s)}

\* x in lst
Contains(lst, x) == \E k \in 1..Len(lst) : lst[k] = x

\* lst.index(x): the first 0-based index holding x (x is in lst).
IndexOf(lst, x) == (CHOOSE k \in 1..Len(lst) :
                        lst[k] = x /\ \A j \in 1..(k - 1) : lst[j] # x) - 1

\* lst[i] = v
SetAt(lst, i, v) == [lst EXCEPT ![i + 1] = v]

\* ------------------------------------------------------------------------
\* get_feedback (wordle.py): packed integer pattern
\* ------------------------------------------------------------------------

\* First pass from index i on: greens.  st = <<feedback, target_chars>>.
RECURSIVE FirstPass(_, _, _)
FirstPass(guess, st, i) ==
    IF i = WordLen THEN st
    ELSE IF guess[i + 1] = st[2][i + 1]
         THEN FirstPass(guess,
                        <<BitOr(st[1], Shl(2, FieldShift(i))), SetAt(st[2], i, None)>>,
                        i + 1)
         ELSE FirstPass(guess, st, i + 1)

\* Second pass from index i on: yellows, each consuming the first remaining
\* occurrence of the letter.
RECURSIVE SecondPass(_, _, _)
SecondPass(guess, st, i) ==
    IF i = WordLen THEN st
    ELSE IF Field(st[1], i) = 0 /\ Contains(st[2], guess[i + 1])
         THEN SecondPass(guess,
                         <<BitOr(st[1], Shl(1, FieldShift(i))),
                           SetAt(st[2], IndexOf(st[2], guess[i + 1]), None)>>,
                         i + 1)
         ELSE SecondPass(guess, st, i + 1)

\* A get_feedback whose second pass forgets to consume the matched target
\* letter (line 70 dropped).
get_feedback_no_consume(guess, target) ==
    LET g == FirstPass(guess, <<0, target>>, 0)
        RECURSIVE Y(_, _)
        Y(fb, i) == IF i = WordLen THEN fb
                    ELSE IF Field(fb, i) = 0 /\ Contains(g[2], guess[i + 1])
                         THEN Y(BitOr(fb, Shl(1, FieldShift(i))), i + 1)
                         ELSE Y(fb, i + 1)
    IN  Y(g[1], 0)

\* The value get_feedback returns: the body run on a cache miss (lines
\* 56-70).  The memo table feedback_cache only replays this value for a key
\* seen before (the action GetFeedbackHit below returns the stored value).
get_feedback(guess, target) ==
    SecondPass(guess, FirstPass(guess, <<0, target>>, 0), 0)[1]

\* ------------------------------------------------------------------------
\* get_feedback (top_starters.py): tuple of 0 gray / 1 yellow / 2 green
\* ------------------------------------------------------------------------

RECURSIVE TsFirstPass(_, _, _)
TsFirstPass(guess, st, i) ==
    IF i = WordLen THEN st
    ELSE IF guess[i + 1] = st[2][i + 1]
         THEN TsFirstPass(guess, <<SetAt(st[1], i, 2), SetAt(st[2], i, None)>>, i + 1)
         ELSE TsFirstPass(guess, st, i + 1)

RECURSIVE TsSecondPass(_, _, _)
TsSecondPass(guess, st, i) ==
    IF i = WordLen THEN st
    ELSE IF st[1][i + 1] = 0 /\ Contains(st[2], guess[i + 1])
         THEN TsSecondPass(guess,
                           <<SetAt(st[1], i, 1),
                             SetAt(st[2], IndexOf(st[2], guess[i + 1]), None)>>,
                           i + 1)
         ELSE TsSecondPass(guess, st, i + 1)

ts_get_feedback(guess, target) ==
    TsSecondPass(guess,
                 TsFirstPass(guess, <<[k \in 1..WordLen |-> 0], target>>, 0), 0)[1]

\* ------------------------------------------------------------------------
\* calculate_entropy
\* ------------------------------------------------------------------------

\* math.log2 of a count, in millionths of a bit.  The entropies of the model
\* are fixed-point numbers with this scale where Python has doubles: for
\* every split of up to 8 candidates into groups, two entropies computed this
\* way compare (<, =, >) as the doubles of calculate_entropy do, except that
\* a double sum of three or more groups over 6, 7 or 9 candidates may differ
\* in its last bit with the order of the groups; the word lists below keep
\* to the sizes and splits where the two agree.
Log2Table ==
    <<0, 1000000, 1584963, 2000000, 2321928, 2584963, 2807355, 3000000>>

Log2Micro(n) == Log2Table[n]

\* pattern_counts[pattern] += 1 on a Counter that keeps insertion order: a
\* sequence of <<pattern, count>>.
CounterInc(counter, pattern) ==
    IF \E k \in 1..Len(counter) : counter[k][1] = pattern
    THEN LET k == CHOOSE j \in 1..Len(counter) : counter[j][1] = pattern
         IN  [counter EXCEPT ![k] = <<pattern, counter[k][2] + 1>>]
    ELSE Append(counter, <<pattern, 1>>)

\* The counting loop of calculate_entropy from word i on (lines 103-106).
RECURSIVE PatternCounts(_, _, _, _)
PatternCounts(guess, possible_words, i, counter) ==
    IF i > Len(possible_words) THEN counter
    ELSE PatternCounts(guess, possible_words, i + 1,
                       CounterInc(counter, get_feedback(guess, possible_words[i])))

\* The summing loop (lines 108-112), scaled by total: the sum over the groups
\* of count * (log2(total) - log2(count)) = -total * p * log2(p).
RECURSIVE EntropySum(_, _, _)
EntropySum(counter, total, k) ==
    IF k > Len(counter) THEN 0
    ELSE counter[k][2] * (Log2Micro(total) - Log2Micro(counter[k][2]))
         + EntropySum(counter, total, k + 1)

\* calculate_entropy, in millionths of a bit (0 for an empty list: the
\* summing loop runs over no group).
calculate_entropy(guess, possible_words) ==
    LET counter == PatternCounts(guess, possible_words, 1, <<>>)
        total   == Len(possible_words)
    IN  IF total = 0 THEN 0 ELSE EntropySum(counter, total, 1) \div total

\* calculate_entropy_wrapper: (guess, entropy).
calculate_entropy_wrapper(args) ==
    <<args[1], calculate_entropy(args[1], args[2])>>

\* max(results, key=lambda x: x[1]) from item k on: the running best is
\* replaced only by a strictly greater key, so the first maximum wins.
RECURSIVE MaxByEntropy(_, _, _)
MaxByEntropy(results, k, best) ==
    IF k > Len(results) THEN best
    ELSE IF results[k][2] > best[2]
         THEN MaxByEntropy(results, k + 1, results[k])
         ELSE MaxByEntropy(results, k + 1, best)

\* max over a non-empty list of (guess, entropy).
MaxResult(results) == MaxByEntropy(results, 2, results[1])

\* args = [(guess, possible_words) for guess in possible_words] (line 145):
\* the guesses are drawn from possible_words; word_list is not read.
SelectArgs(word_list, possible_words) ==
    [k \in 1..Len(possible_words) |-> <<possible_words[k], possible_words>>]

\* select_best_guess_parallel evaluated on one thread: map, then max.
select_best_guess(word_list, possible_words) ==
    LET args    == SelectArgs(word_list, possible_words)
        results == [k \in 1..Len(args) |-> calculate_entropy_wrapper(args[k])]
    IN  MaxResult(results)[1]

\* ------------------------------------------------------------------------
\* filter_possible_words
\* ------------------------------------------------------------------------

\* The loop of filter_possible_words from word i on.
RECURSIVE FilterLoop(_, _, _, _, _)
FilterLoop(guess, feedback, possible_words, i, filtered_words) ==
    IF i > Len(possible_words) THEN filtered_words
    ELSE IF get_feedback(guess, possible_words[i]) = feedback
         THEN FilterLoop(guess, feedback, possible_words, i + 1,
                         Append(filtered_words, possible_words[i]))
         ELSE FilterLoop(guess, feedback, possible_words, i + 1, filtered_words)

\* A filter that never drops the word that was guessed.
filter_keeps_guess(guess, feedback, possible_words) ==
    SelectSeq(possible_words,
              LAMBDA w : w = guess \/ get_feedback(guess, w) = feedback)

filter_possible_words(guess, feedback, possible_words) ==
    FilterLoop(guess, feedback, possible_words, 1, <<>>)

\* ------------------------------------------------------------------------
\* parse_feedback: raw text (a sequence of characters) to a pattern
\* ------------------------------------------------------------------------

UpperCase == <<"A", "B", "E", "G", "L", "N", "O", "R", "W", "Y", "X">>

LowerCase == <<"a", "b", "e", "g", "l", "n", "o", "r", "w", "y", "x">>

\* str.lower() on one character.
LowerChar(c) ==
    IF \E k \in 1..Len(UpperCase) : UpperCase[k] = c
    THEN LowerCase[CHOOSE k \in 1..Len(UpperCase) : UpperCase[k] = c]
    ELSE c

Lower(str) == [k \in 1..Len(str) |-> LowerChar(str[k])]

\* str.replace(',', ' ')
ReplaceCommas(str) == [k \in 1..Len(str) |-> IF str[k] = "," THEN " " ELSE str[k]]

IsSpace(c) == c \in {" ", "\t"}

\* str.split() from character i on: the maximal runs of non-space
\* characters, in order (strip() is subsumed: no empty token is produced).
RECURSIVE SplitLoop(_, _, _, _)
SplitLoop(str, i, current, tokens) ==
    IF i > Len(str)
    THEN IF current = <<>> THEN tokens ELSE Append(tokens, current)
    ELSE IF IsSpace(str[i])
         THEN SplitLoop(str, i + 1, <<>>,
                        IF current = <<>> THEN tokens ELSE Append(tokens, current))
         ELSE SplitLoop(str, i + 1, Append(current, str[i]), tokens)

Split(str) == SplitLoop(str, 1, <<>>, <<>>)

\* feedback_map (lines 188-195): token -> colour.
feedback_map ==
    (<<"g">> :> "green") @@ (<<"y">> :> "yellow") @@ (<<"b">> :> "gray")
    @@ (<<"g", "r", "a", "y">> :> "gray")
    @@ (<<"g", "r", "e", "e", "n">> :> "green")
    @@ (<<"y", "e", "l", "l", "o", "w">> :> "yellow")

\* The token loop (lines 198-202) from token k on: the colours, or the
\* ValueError of the first token that is not in feedback_map.
RECURSIVE TokenLoop(_, _, _)
TokenLoop(tokens, k, feedback) ==
    IF k > Len(tokens) THEN [ok |-> TRUE, feedback |-> feedback]
    ELSE IF tokens[k] \in DOMAIN feedback_map
         THEN TokenLoop(tokens, k + 1, Append(feedback, feedback_map[tokens[k]]))
         ELSE [ok |-> FALSE, feedback |-> <<>>]

\* The packing loop (lines 207-213) from index i on.
RECURSIVE PackLoop(_, _, _)
PackLoop(feedback, i, feedback_int) ==
    IF i = WordLen THEN feedback_int
    ELSE IF feedback[i + 1] = "green"
         THEN PackLoop(feedback, i + 1, BitOr(feedback_int, Shl(2, FieldShift(i))))
         ELSE IF feedback[i + 1] = "yellow"
              THEN PackLoop(feedback, i + 1, BitOr(feedback_int, Shl(1, FieldShift(i))))
              ELSE PackLoop(feedback, i + 1, feedback_int)

Parsed(value) == [ok |-> TRUE, value |-> value, error |-> "none"]

ValueError(message) == [ok |-> FALSE, value |-> 0, error |-> message]

\* A parse_feedback that takes an unrecognised token for gray.
parse_feedback_lenient(feedback_str) ==
    LET tokens == Split(ReplaceCommas(Lower(feedback_str)))
        colours == [k \in 1..Len(tokens) |->
                       IF tokens[k] \in DOMAIN feedback_map
                       THEN feedback_map[tokens[k]] ELSE "gray"]
    IN  IF Len(colours) # WordLen THEN ValueError("wrong_count")
        ELSE Parsed(PackLoop(colours, 0, 0))

\* parse_feedback: the pattern, or the ValueError raised.
parse_feedback(feedback_str) ==
    LET tokens == Split(ReplaceCommas(Lower(feedback_str)))
        looped == TokenLoop(tokens, 1, <<>>)
    IN  IF ~looped.ok THEN ValueError("invalid_token")
        ELSE IF Len(looped.feedback) # WordLen THEN ValueError("wrong_count")
        ELSE Parsed(PackLoop(looped.feedback, 0, 0))

\* ------------------------------------------------------------------------
\* The entropy cache: fingerprint and table
\* ------------------------------------------------------------------------

\* The bytes compute_wordlist_hash feeds the hasher: the words in list
\* order, concatenated.
RECURSIVE HashedBytes(_, _)
HashedBytes(word_list, k) ==
    IF k > Len(word_list) THEN <<>>
    ELSE word_list[k] \o HashedBytes(word_list, k + 1)

\* compute_wordlist_hash: the SHA-256 hex digest, modelled as a digest that
\* is equal exactly when the hashed bytes are equal.
compute_wordlist_hash(word_list) == <<"sha256">> \o HashedBytes(word_list, 1)

\* entropy_dict[guess] = entropy on a dict that keeps insertion order: a
\* sequence of <<guess, entropy>>.
DictSet(dict, key, value) ==
    IF \E k \in 1..Len(dict) : dict[k][1] = key
    THEN LET k == CHOOSE j \in 1..Len(dict) : dict[j][1] = key
         IN  [dict EXCEPT ![k] = <<key, value>>]
    ELSE Append(dict, <<key, value>>)

\* The loop over results of compute_and_save_initial_entropy (lines 285-286).
RECURSIVE DictFromResults(_, _, _)
DictFromResults(results, k, entropy_dict) ==
    IF k > Len(results) THEN entropy_dict
    ELSE DictFromResults(results, k + 1,
                         DictSet(entropy_dict, results[k][1], results[k][2]))

\* The table compute_and_save_initial_entropy builds (lines 280-289): every
\* word of word_list scored against word_list.
ComputeInitialEntropy(word_list) ==
    LET args    == [k \in 1..Len(word_list) |-> <<word_list[k], word_list>>]
        results == [k \in 1..Len(args) |-> calculate_entropy_wrapper(args[k])]
    IN  DictFromResults(results, 1, <<>>)

\* max(initial_entropy, key=initial_entropy.get): the first key of maximum
\* value in insertion order.
FirstGuess(initial_entropy) == MaxResult(initial_entropy)[1]

\* ------------------------------------------------------------------------
\* Feedback rules, stated independently of the bit operations above
\* ------------------------------------------------------------------------

\* The mark (0 gray, 1 yellow, 2 green) a packed pattern holds for the
\* 1-based position k, read arithmetically.
RECURSIVE Pow4(_)
Pow4(n) == IF n = 0 THEN 1 ELSE 4 * Pow4(n - 1)

MarkAt(p, k) == (p \div Pow4(WordLen - k)) % 4

Marks(p) == [k \in 1..WordLen |-> MarkAt(p, k)]

Occ(word, letter) == Cardinality({k \in 1..WordLen : word[k] = letter})

\* Positions of the guess that are not exact matches and hold the letter.
OffGuess(guess, target, letter) ==
    {k \in 1..WordLen : guess[k] = letter /\ guess[k] # target[k]}

\* Occurrences of the letter in the target that no green claims.
OffTarget(guess, target, letter) ==
    {k \in 1..WordLen : target[k] = letter /\ guess[k] # target[k]}

FeedbackRules(guess, target, m) ==
    /\ m \in [1..WordLen -> {0, 1, 2}]
    /\ \A k \in 1..WordLen : (m[k] = 2) <=> (guess[k] = target[k])
    /\ \A letter \in Range(guess) :
          Cardinality({k \in 1..WordLen : guess[k] = letter /\ m[k] \in {1, 2}})
              <= Occ(target, letter)
    \* yellows go to the leftmost non-green positions of a letter, one per
    \* target occurrence that no green claims
    /\ \A k \in 1..WordLen :
          (m[k] = 1) <=>
              /\ guess[k] # target[k]
              /\ Cardinality({j \in OffGuess(guess, target, guess[k]) : j < k})
                     < Cardinality(OffTarget(guess, target, guess[k]))

\* ------------------------------------------------------------------------
\* Word lists
\* ------------------------------------------------------------------------

W(c1, c2, c3, c4, c5) == <<c1, c2, c3, c4, c5>>

\* Six words that differ in the last letter only: every guess splits them
\* into itself and the rest, so all entropies tie.
PoolTies ==
    <<W("a","a","a","a","a"), W("a","a","a","a","b"), W("a","a","a","a","c"),
      W("a","a","a","a","d"), W("a","a","a","a","e"), W("a","a","a","a","f")>>

\* Five words whose best opener (abcaa) is the third of the list.
PoolProbe ==
    <<W("d","a","a","a","a"), W("b","a","a","a","a"), W("a","b","c","a","a"),
      W("c","a","a","a","a"), W("e","a","a","a","a")>>

\* Eight words: the opener fghww tells fyyyy, gyyyy, hyyyy apart and lumps
\* baaaa, caaaa, daaaa, which only bcdwx (not among them) tells apart.
PoolSplit ==
    <<W("f","g","h","w","w"), W("b","c","d","w","x"),
      W("b","a","a","a","a"), W("c","a","a","a","a"), W("d","a","a","a","a"),
      W("f","y","y","y","y"), W("g","y","y","y","y"), W("h","y","y","y","y")>>

\* ------------------------------------------------------------------------
\* The candidate lists a session hands to select_best_guess_parallel
\* ------------------------------------------------------------------------

\* The patterns that leave a candidate: those of the candidates themselves.
LivePatterns(guess, possible_words) ==
    {get_feedback(guess, possible_words[k]) : k \in 1..Len(possible_words)}
        \ {AllGreen}

\* The non-empty candidate lists reachable from possible_words at the top of
\* the loop of wordle_bot in round `attempt` (0-based), this one included.
RECURSIVE CandidatesFrom(_, _, _)
CandidatesFrom(word_list, possible_words, attempt) ==
    IF attempt >= Attempts THEN {}
    ELSE LET guess == IF attempt = 0
                      THEN FirstGuess(ComputeInitialEntropy(word_list))
                      ELSE select_best_guess(word_list, possible_words)
         IN  {possible_words} \cup
             UNION {CandidatesFrom(word_list,
                                   filter_possible_words(guess, p, possible_words),
                                   attempt + 1) :
                    p \in LivePatterns(guess, possible_words)}

\* The candidate lists of rounds 1 and later: the calls of
\* select_best_guess_parallel.
SessionCandidates(word_list) ==
    LET guess == FirstGuess(ComputeInitialEntropy(word_list))
    IN  UNION {CandidatesFrom(word_list,
                              filter_possible_words(guess, p, word_list), 1) :
               p \in LivePatterns(guess, word_list)}

\* ------------------------------------------------------------------------
\* SelectSpec: select_best_guess_parallel on a pool of worker processes
\* ------------------------------------------------------------------------

\* Bounds: the worker processes, and the chunk sizes tried.  pool.map is
\* called with chunksize=1000, which puts a list of the model in one chunk;
\* the model also cuts the list into chunks of every smaller size.
MaxWorkers == 2

MaxChunk == 3

SelectPools == {PoolTies, PoolProbe, PoolSplit}

\* The number of chunks pool.map cuts n tasks into.
NumChunks(n, size) == (n + size - 1) \div size

\* The tasks (1-based indexes into args) of chunk c.
ChunkTasks(c, n, size) ==
    [j \in 1..(IF c * size <= n THEN size ELSE n - (c - 1) * size) |->
        (c - 1) * size + j]

RECURSIVE Flatten(_, _)
Flatten(lists, k) ==
    IF k > Len(lists) THEN <<>> ELSE lists[k] \o Flatten(lists, k + 1)

\* A map that hands the chunks back in the order the workers finished them.
MapResultsUnordered(results_by_chunk, finished) ==
    Flatten([k \in 1..Len(finished) |-> results_by_chunk[finished[k]]], 1)

\* The list pool.map returns: the chunks' results in the order of args,
\* whatever order they were finished in.
MapResults(results_by_chunk, finished) == Flatten(results_by_chunk, 1)

\* The guess C3 describes: every word of the guess pool word_list scored
\* against the candidates, the first word of maximum entropy returned.
BestOverPool(word_list, possible_words) ==
    MaxResult([k \in 1..Len(word_list) |->
                  <<word_list[k], calculate_entropy(word_list[k], possible_words)>>])[1]

\* ------------------------------------------------------------------------
\* wordle_bot: the word lists, the texts typed at the prompt, the cache files
\* ------------------------------------------------------------------------

\* Bounds: the processes run one after the other on the same cache files,
\* and the inputs one prompt rejects before a valid one is typed.
MaxRuns == 3

MaxRejects == 1

\* The contents wordlist.txt takes from run to run.
ProgramPools == {PoolTies, PoolProbe}

\* "b b b b b": all gray.
TextAllGray == <<"b", " ", "b", " ", "b", " ", "b", " ", "b">>

\* " Green,YELLOW b  gray,G ": green, yellow, gray, gray, green (578) in
\* mixed case, with commas, doubled and surrounding blanks.
TextMixed ==
    <<" ", "G", "r", "e", "e", "n", ",", "Y", "E", "L", "L", "O", "W", " ",
      "b", " ", " ", "g", "r", "a", "y", ",", "G", " ">>

\* "g y b b": four tokens.
TextFour == <<"g", " ", "y", " ", "b", " ", "b">>

\* "g,y,b,b,g,g": six tokens.
TextSix == <<"g", ",", "y", ",", "b", ",", "b", ",", "g", ",", "g">>

\* "g y x b g": five tokens, one of them unknown.
TextUnknown == <<"g", " ", "y", " ", "x", " ", "b", " ", "g">>

\* "gy b b g g": five tokens, the first two marks typed without a separator.
TextGlued == <<"g", "y", " ", "b", " ", "b", " ", "g", " ", "g">>

FixedTexts == {TextAllGray, TextMixed, TextFour, TextSix, TextUnknown, TextGlued, <<>>}

\* What a user types for a pattern: g, y or b per position, blank-separated.
MarkLetter(m) == IF m = 2 THEN "g" ELSE IF m = 1 THEN "y" ELSE "b"

RECURSIVE RenderFrom(_, _)
RenderFrom(p, k) ==
    IF k > WordLen THEN <<>>
    ELSE (IF k = 1 THEN <<>> ELSE <<" ">>) \o <<MarkLetter(MarkAt(p, k))>>
         \o RenderFrom(p, k + 1)

Render(p) == RenderFrom(p, 1)

\* The texts typed at the prompt for guess g: the true feedback for every
\* word of the list, and the fixed texts.
PromptTexts(g, wl) ==
    {Render(get_feedback(g, wl[k])) : k \in 1..Len(wl)} \cup FixedTexts

\* str.strip(): drop the leading and the trailing white space.
RECURSIVE StripLeft(_)
StripLeft(str) ==
    IF str # <<>> /\ IsSpace(Head(str)) THEN StripLeft(Tail(str)) ELSE str

RECURSIVE StripRight(_)
StripRight(str) ==
    IF str # <<>> /\ IsSpace(str[Len(str)])
    THEN StripRight(SubSeq(str, 1, Len(str) - 1)) ELSE str

Strip(str) == StripRight(StripLeft(str))

\* input(...).strip().lower() followed by parse_feedback (lines 361-363).
ReadFeedback(text) == parse_feedback(Lower(Strip(text)))

\* load_wordlist_hash: None when the file is missing, else its text; the
\* text of a torn file is a proper prefix of a digest.
load_wordlist_hash(file) ==
    IF file[1] = "missing" THEN <<"None">>
    ELSE IF file[1] = "torn" THEN <<"sha256-prefix">>
    ELSE file[2]

\* is_entropy_cache_valid: the stored fingerprint is that of the word list
\* and initial_entropy.pkl exists (in whatever state).
is_entropy_cache_valid(wl, hfile, pfile) ==
    load_wordlist_hash(hfile) = compute_wordlist_hash(wl) /\ pfile[1] # "missing"

\* ------------------------------------------------------------------------
\* State
\* ------------------------------------------------------------------------

VARIABLES
    \* -- one get_feedback call site (FeedbackSpec)
    f_guess,          \* the guess argument
    f_target,         \* the target argument
    feedback_cache,   \* the module-level memo table: key -> pattern
    f_out,            \* the patterns wordle.get_feedback returned, in call order
    f_hit,            \* TRUE once a call was answered from feedback_cache
    f_tuple,          \* the tuples top_starters.get_feedback returned
    \* -- one call of select_best_guess_parallel (SelectSpec)
    sel_word_list,    \* its argument word_list
    sel_possible,     \* its argument possible_words
    num_processes,    \* multiprocessing.cpu_count()
    chunksize,        \* the chunk size pool.map cuts args into
    task_queue,       \* the chunks no worker has taken yet, in order
    worker,           \* worker -> the chunk it is computing (0: idle)
    chunk_results,    \* chunk -> its list of (guess, entropy) (<<>>: not done)
    finish_order,     \* the chunks in the order the workers finished them
    map_results,      \* the list pool.map returned (<<>>: not returned)
    best_guess,       \* <<word>> once max has run, <<>> before
    sel_pc,           \* "mapping", "joined" (pool closed and joined), "done"
    \* -- the two cache files, which outlive a process (ProgramSpec)
    pkl_file,         \* initial_entropy.pkl: <<"missing">>, <<"torn">> or <<"whole", dict>>
    hash_file,        \* wordlist_hash.txt: <<"missing">>, <<"torn">> or <<"whole", digest>>
    \* -- one process running wordle_bot (ProgramSpec)
    runs,             \* the processes started so far
    pc,               \* where the process is
    outcome,          \* how the process ended ("none" while it runs)
    printed,          \* the messages printed by the session loop
    word_list,        \* load_word_list("wordlist.txt")
    possible_words,   \* the candidates
    initial_entropy,  \* the table get_initial_entropy returned (or is saving)
    attempt,          \* the loop variable of wordle_bot
    guess,            \* the guess that awaits feedback (<<>>: none yet)
    n_guesses,        \* the guesses printed by this process
    entered,          \* the text input() returned last at this prompt
    rejected,         \* the inputs parse_feedback rejected at this prompt
    \* -- history variables
    target,           \* the word the user has in mind, a word of word_list
    truthful,         \* TRUE while every decoded feedback was that of target
    filter_call       \* <<guess, feedback, possible_words>> of the last filter call

fvars == <<f_guess, f_target, feedback_cache, f_out, f_hit, f_tuple>>

svars == <<sel_word_list, sel_possible, num_processes, chunksize, task_queue,
           worker, chunk_results, finish_order, map_results, best_guess, sel_pc>>

dvars == <<pkl_file, hash_file>>

pvars == <<runs, pc, outcome, printed, word_list, possible_words, initial_entropy,
           attempt, guess, n_guesses, entered, rejected, target, truthful,
           filter_call>>

vars == <<fvars, svars, dvars, pvars>>

\* The state of a part of the program that a specification does not run.
FeedbackUnused ==
    /\ f_guess = <<>> /\ f_target = <<>> /\ feedback_cache = <<>>
    /\ f_out = <<>> /\ f_hit = FALSE /\ f_tuple = <<>>

SelectUnused ==
    /\ sel_word_list = <<>> /\ sel_possible = <<>>
    /\ num_processes = 0 /\ chunksize = 0
    /\ task_queue = <<>> /\ worker = <<>> /\ chunk_results = <<>>
    /\ finish_order = <<>> /\ map_results = <<>> /\ best_guess = <<>>
    /\ sel_pc = "unused"

ProgramUnused ==
    /\ pkl_file = <<"missing">> /\ hash_file = <<"missing">>
    /\ runs = 0 /\ pc = "unused" /\ outcome = "none" /\ printed = {}
    /\ word_list = <<>> /\ possible_words = <<>> /\ initial_entropy = <<>>
    /\ attempt = 0 /\ guess = <<>> /\ n_guesses = 0
    /\ entered = <<>> /\ rejected = 0
    /\ target = <<>> /\ truthful = TRUE /\ filter_call = <<>>

\* ------------------------------------------------------------------------
\* FeedbackSpec: calls of get_feedback on one pair of words
\* ------------------------------------------------------------------------

FeedbackPairs ==
    (GuessWords \X TargetWords) \cup (ScenarioWords \X ScenarioWords)

FInit ==
    /\ \E p \in FeedbackPairs : f_guess = p[1] /\ f_target = p[2]
    /\ feedback_cache = <<>>
    /\ f_out = <<>>
    /\ f_hit = FALSE
    /\ f_tuple = <<>>
    /\ SelectUnused
    /\ ProgramUnused

\* get_feedback, key not in feedback_cache: compute, store, return.
GetFeedbackMiss ==
    LET key == <<f_guess, f_target>> IN
    /\ key \notin DOMAIN feedback_cache
    /\ LET feedback == get_feedback(f_guess, f_target) IN
        /\ feedback_cache' = (key :> feedback) @@ feedback_cache
        /\ f_out' = Append(f_out, feedback)
    /\ UNCHANGED <<f_guess, f_target, f_hit, f_tuple, svars, dvars, pvars>>

\* get_feedback, key in feedback_cache: return the stored pattern.
GetFeedbackHit ==
    LET key == <<f_guess, f_target>> IN
    /\ key \in DOMAIN feedback_cache
    /\ ~f_hit
    /\ f_out' = Append(f_out, feedback_cache[key])
    /\ f_hit' = TRUE
    /\ UNCHANGED <<f_guess, f_target, feedback_cache, f_tuple, svars, dvars, pvars>>

\* top_starters.get_feedback.
TsGetFeedback ==
    /\ f_tuple = <<>>
    /\ f_tuple' = <<ts_get_feedback(f_guess, f_target)>>
    /\ UNCHANGED <<f_guess, f_target, feedback_cache, f_out, f_hit, svars, dvars, pvars>>

FNext == GetFeedbackMiss \/ GetFeedbackHit \/ TsGetFeedback

FeedbackSpec == FInit /\ [][FNext]_vars


\* C1: every pattern get_feedback returns (computed or replayed from
\* feedback_cache, in wordle.py and in top_starters.py) marks position i
\* green iff guess[i] = target[i], marks at most as many positions of a
\* letter green or yellow as the target holds that letter, hands out the
\* yellows left to right, and is the all-green pattern 682 when the guess is
\* the target.
C1_FeedbackRules ==
    /\ \A n \in 1..Len(f_out) :
          /\ f_out[n] \in 0..1023
          /\ FeedbackRules(f_guess, f_target, Marks(f_out[n]))
          /\ (f_guess = f_target) => (f_out[n] = AllGreen)
    /\ \A n \in 1..Len(f_tuple) :
          /\ FeedbackRules(f_guess, f_target, f_tuple[n])
          /\ (f_guess = f_target) => (f_tuple[n] = <<2, 2, 2, 2, 2>>)

\* The duplicate-letter case: guess aabbb against ababa is green, yellow,
\* yellow, green, gray (10 01 01 10 00), computed and then replayed.
C1_Witness ==
    /\ f_guess = aabbb /\ f_target = ababa
    /\ f_hit /\ Len(f_out) = 2 /\ f_out[2] = 600
    /\ f_tuple = <<(<<2, 1, 1, 2, 0>>)>>

\* C2 as stated: abcde against edcba is all yellow (01 01 01 01 01 = 341).
C2_AllYellow ==
    (f_guess = abcde /\ f_target = edcba) =>
        \A n \in 1..Len(f_out) : f_out[n] = 341

\* C2 amended: abcde against edcba is yellow, yellow, green, yellow, yellow
\* (01 01 10 01 01 = 357): the middle letter c is an exact match.
C2_MiddleGreen ==
    (f_guess = abcde /\ f_target = edcba) =>
        \A n \in 1..Len(f_out) :
            f_out[n] = 357 /\ Marks(f_out[n]) = <<1, 1, 2, 1, 1>>

C2_Witness ==
    f_guess = abcde /\ f_target = edcba /\ Len(f_out) >= 1


\* ------------------------------------------------------------------------
\* SelectSpec: the actions
\* ------------------------------------------------------------------------

SInit ==
    /\ \E wl \in SelectPools :
          /\ sel_word_list = wl
          /\ \E pw \in SessionCandidates(wl) : sel_possible = pw
    /\ num_processes \in 1..MaxWorkers
    /\ chunksize \in 1..MaxChunk
    /\ task_queue = [c \in 1..NumChunks(Len(sel_possible), chunksize) |-> c]
    /\ worker = [w \in 1..num_processes |-> 0]
    /\ chunk_results = [c \in 1..NumChunks(Len(sel_possible), chunksize) |-> <<>>]
    /\ finish_order = <<>>
    /\ map_results = <<>>
    /\ best_guess = <<>>
    /\ sel_pc = "mapping"
    /\ FeedbackUnused
    /\ ProgramUnused

\* An idle worker takes the next chunk from the task queue.
TakeChunk(w) ==
    /\ sel_pc = "mapping"
    /\ worker[w] = 0
    /\ task_queue # <<>>
    /\ worker' = [worker EXCEPT ![w] = Head(task_queue)]
    /\ task_queue' = Tail(task_queue)
    /\ UNCHANGED <<sel_word_list, sel_possible, num_processes, chunksize,
                   chunk_results, finish_order, map_results, best_guess, sel_pc,
                   fvars, dvars, pvars>>

\* A worker finishes its chunk: calculate_entropy_wrapper on each task.
FinishChunk(w) ==
    /\ sel_pc = "mapping"
    /\ worker[w] # 0
    /\ LET c     == worker[w]
           args  == SelectArgs(sel_word_list, sel_possible)
           tasks == ChunkTasks(c, Len(args), chunksize)
       IN  /\ chunk_results' =
                 [chunk_results EXCEPT
                     ![c] = [j \in 1..Len(tasks) |->
                                calculate_entropy_wrapper(args[tasks[j]])]]
           /\ finish_order' = Append(finish_order, c)
    /\ worker' = [worker EXCEPT ![w] = 0]
    /\ UNCHANGED <<sel_word_list, sel_possible, num_processes, chunksize,
                   task_queue, map_results, best_guess, sel_pc, fvars, dvars,
                   pvars>>

\* pool.map returns once every chunk is in; then pool.close(), pool.join().
MapReturn ==
    /\ sel_pc = "mapping"
    /\ task_queue = <<>>
    /\ \A w \in DOMAIN worker : worker[w] = 0
    /\ map_results' = MapResults(chunk_results, finish_order)
    /\ sel_pc' = "joined"
    /\ UNCHANGED <<sel_word_list, sel_possible, num_processes, chunksize,
                   task_queue, worker, chunk_results, finish_order, best_guess,
                   fvars, dvars, pvars>>

\* best_guess, max_entropy = max(results, key=lambda x: x[1])
Reduce ==
    /\ sel_pc = "joined"
    /\ best_guess' = <<MaxResult(map_results)[1]>>
    /\ sel_pc' = "done"
    /\ UNCHANGED <<sel_word_list, sel_possible, num_processes, chunksize,
                   task_queue, worker, chunk_results, finish_order, map_results,
                   fvars, dvars, pvars>>

SNext ==
    \/ \E w \in DOMAIN worker : TakeChunk(w)
    \/ \E w \in DOMAIN worker : FinishChunk(w)
    \/ MapReturn
    \/ Reduce

SelectSpec == SInit /\ [][SNext]_vars


\* C3 as stated: select_best_guess_parallel returns the first word of the
\* full guess pool (its first argument) that maximises the entropy against
\* the candidates.
C3_BestOfGuessPool ==
    (sel_pc = "done") =>
        best_guess = <<BestOverPool(sel_word_list, sel_possible)>>

\* C4: whatever the number of workers, the chunk size and the order in
\* which the workers finish, the guess returned is the one a single-threaded
\* evaluation returns; the list that max reduces is complete and in the order
\* of args, and nothing is returned or reduced while a chunk is outstanding.
C4_ParallelAgreesWithSequential ==
    LET args     == SelectArgs(sel_word_list, sel_possible)
        complete ==
            /\ task_queue = <<>>
            /\ \A w \in DOMAIN worker : worker[w] = 0
            /\ \A c \in DOMAIN chunk_results :
                  \E k \in 1..Len(finish_order) : finish_order[k] = c
    IN  /\ (sel_pc = "done") =>
              best_guess = <<select_best_guess(sel_word_list, sel_possible)>>
        /\ (sel_pc \in {"joined", "done"}) =>
              /\ complete
              /\ map_results =
                    [k \in 1..Len(args) |-> calculate_entropy_wrapper(args[k])]
        /\ (sel_pc = "mapping") => (map_results = <<>> /\ best_guess = <<>>)

\* Two workers finish the chunks of a tied list out of order, and the guess
\* is still the first word.
C4_Witness ==
    /\ sel_pc = "done"
    /\ sel_word_list = PoolTies
    /\ Len(sel_possible) >= 3
    /\ num_processes = 2
    /\ Len(finish_order) >= 2
    /\ finish_order[1] > finish_order[2]
    /\ best_guess = <<sel_possible[1]>>


\* ------------------------------------------------------------------------
\* ProgramSpec: processes running wordle_bot, one after the other
\* ------------------------------------------------------------------------

PInit ==
    /\ pkl_file = <<"missing">>
    /\ hash_file = <<"missing">>
    /\ runs = 0
    /\ pc = "idle"
    /\ outcome = "none"
    /\ printed = {}
    /\ word_list = <<>>
    /\ possible_words = <<>>
    /\ initial_entropy = <<>>
    /\ attempt = 0
    /\ guess = <<>>
    /\ n_guesses = 0
    /\ entered = <<>>
    /\ rejected = 0
    /\ target = <<>>
    /\ truthful = TRUE
    /\ filter_call = <<>>
    /\ FeedbackUnused
    /\ SelectUnused

\* A process starts: word_list = load_word_list(...), possible_words =
\* word_list.copy() (lines 332-333).  The user picks a word of the list.
Start(pool, secret) ==
    /\ pc \in {"idle", "ended"}
    /\ runs < MaxRuns
    /\ runs' = runs + 1
    /\ word_list' = pool
    /\ possible_words' = pool
    /\ target' = secret
    /\ truthful' = TRUE
    /\ initial_entropy' = <<>>
    /\ attempt' = 0
    /\ guess' = <<>>
    /\ n_guesses' = 0
    /\ entered' = <<>>
    /\ rejected' = 0
    /\ printed' = {}
    /\ outcome' = "none"
    /\ filter_call' = <<>>
    /\ pc' = "cache_check"
    /\ UNCHANGED <<dvars, fvars, svars>>

\* get_initial_entropy, line 321.
CacheCheck ==
    /\ pc = "cache_check"
    /\ pc' = IF is_entropy_cache_valid(word_list, hash_file, pkl_file)
             THEN "load" ELSE "compute"
    /\ UNCHANGED <<dvars, fvars, svars, runs, outcome, printed, word_list,
                   possible_words, initial_entropy, attempt, guess, n_guesses,
                   entered, rejected, target, truthful, filter_call>>

\* load_initial_entropy: pickle.load returns the saved dict, or raises on a
\* torn file, which nothing catches.
LoadCache ==
    /\ pc = "load"
    /\ IF pkl_file[1] = "whole"
       THEN /\ initial_entropy' = pkl_file[2]
            /\ pc' = "loop"
            /\ UNCHANGED outcome
       ELSE /\ pc' = "ended"
            /\ outcome' = "Crashed"
            /\ UNCHANGED initial_entropy
    /\ UNCHANGED <<dvars, fvars, svars, runs, printed, word_list,
                   possible_words, attempt, guess, n_guesses, entered, rejected,
                   target, truthful, filter_call>>

\* compute_and_save_initial_entropy, lines 280-289: the table.
ComputeTable ==
    /\ pc = "compute"
    /\ initial_entropy' = ComputeInitialEntropy(word_list)
    /\ pc' = "dump_open"
    /\ UNCHANGED <<dvars, fvars, svars, runs, outcome, printed, word_list,
                   possible_words, attempt, guess, n_guesses, entered, rejected,
                   target, truthful, filter_call>>

\* open(ENTROPY_CACHE_FILE, 'wb') truncates the file.
DumpOpen ==
    /\ pc = "dump_open"
    /\ pkl_file' = <<"torn">>
    /\ pc' = "dump_write"
    /\ UNCHANGED <<hash_file, fvars, svars, runs, outcome, printed, word_list,
                   possible_words, initial_entropy, attempt, guess, n_guesses,
                   entered, rejected, target, truthful, filter_call>>

\* pickle.dump completes and the file is closed.
DumpWrite ==
    /\ pc = "dump_write"
    /\ pkl_file' = <<"whole", initial_entropy>>
    /\ pc' = "hash_open"
    /\ UNCHANGED <<hash_file, fvars, svars, runs, outcome, printed, word_list,
                   possible_words, initial_entropy, attempt, guess, n_guesses,
                   entered, rejected, target, truthful, filter_call>>

\* save_wordlist_hash: open(WORDLIST_HASH_FILE, 'w') truncates the file.
HashOpen ==
    /\ pc = "hash_open"
    /\ hash_file' = <<"torn">>
    /\ pc' = "hash_write"
    /\ UNCHANGED <<pkl_file, fvars, svars, runs, outcome, printed, word_list,
                   possible_words, initial_entropy, attempt, guess, n_guesses,
                   entered, rejected, target, truthful, filter_call>>

\* file.write(wordlist_hash) completes; compute_and_save_initial_entropy
\* returns the table and wordle_bot enters its loop.
HashWrite ==
    /\ pc = "hash_write"
    /\ hash_file' = <<"whole", compute_wordlist_hash(word_list)>>
    /\ pc' = "loop"
    /\ UNCHANGED <<pkl_file, fvars, svars, runs, outcome, printed, word_list,
                   possible_words, initial_entropy, attempt, guess, n_guesses,
                   entered, rejected, target, truthful, filter_call>>

\* The process is killed while it saves the two files.
Interrupt ==
    /\ pc \in {"dump_open", "dump_write", "hash_open", "hash_write"}
    /\ pc' = "ended"
    /\ outcome' = "Killed"
    /\ UNCHANGED <<dvars, fvars, svars, runs, printed, word_list,
                   possible_words, initial_entropy, attempt, guess, n_guesses,
                   entered, rejected, target, truthful, filter_call>>

\* Top of the loop with no candidate left (lines 349-351).
NoPossibleWords ==
    /\ pc = "loop"
    /\ attempt < Attempts
    /\ possible_words = <<>>
    /\ printed' = printed \cup {"no_possible_words"}
    /\ outcome' = "Exhausted"
    /\ pc' = "ended"
    /\ UNCHANGED <<dvars, fvars, svars, runs, word_list, possible_words,
                   initial_entropy, attempt, guess, n_guesses, entered, rejected,
                   target, truthful, filter_call>>

\* Top of the loop with candidates: the guess is printed (lines 353-358).
EmitGuess ==
    /\ pc = "loop"
    /\ attempt < Attempts
    /\ possible_words # <<>>
    /\ guess' = IF attempt = 0
                THEN FirstGuess(initial_entropy)
                ELSE select_best_guess(word_list, possible_words)
    /\ n_guesses' = n_guesses + 1
    /\ entered' = <<>>
    /\ rejected' = 0
    /\ pc' = "prompt"
    /\ UNCHANGED <<dvars, fvars, svars, runs, outcome, printed, word_list,
                   possible_words, initial_entropy, attempt, target, truthful,
                   filter_call>>

\* The loop has run `attempts` times (line 379).
OutOfAttempts ==
    /\ pc = "loop"
    /\ attempt = Attempts
    /\ printed' = printed \cup {"failed"}
    /\ outcome' = "Exhausted"
    /\ pc' = "ended"
    /\ UNCHANGED <<dvars, fvars, svars, runs, word_list, possible_words,
                   initial_entropy, attempt, guess, n_guesses, entered, rejected,
                   target, truthful, filter_call>>

\* parse_feedback raises ValueError: the error is printed and the prompt is
\* shown again (lines 365-367).
FeedbackRejected(text) ==
    /\ pc = "prompt"
    /\ rejected < MaxRejects
    /\ ~ReadFeedback(text).ok
    /\ entered' = text
    /\ rejected' = rejected + 1
    /\ printed' = printed \cup {ReadFeedback(text).error}
    /\ UNCHANGED <<dvars, fvars, svars, runs, pc, outcome, word_list,
                   possible_words, initial_entropy, attempt, guess, n_guesses,
                   target, truthful, filter_call>>

\* The feedback is all green (lines 371-373).
FeedbackSolved(text) ==
    /\ pc = "prompt"
    /\ ReadFeedback(text).ok
    /\ ReadFeedback(text).value = AllGreen
    /\ entered' = text
    /\ truthful' = (truthful /\ get_feedback(guess, target) = AllGreen)
    /\ printed' = printed \cup {"solved"}
    /\ outcome' = "Solved"
    /\ pc' = "ended"
    /\ UNCHANGED <<dvars, fvars, svars, runs, word_list, possible_words,
                   initial_entropy, attempt, guess, n_guesses, rejected, target,
                   filter_call>>

\* Any other feedback: the candidates are filtered and the loop goes on
\* (lines 376-377).
FeedbackFilter(text) ==
    /\ pc = "prompt"
    /\ ReadFeedback(text).ok
    /\ ReadFeedback(text).value # AllGreen
    /\ LET feedback == ReadFeedback(text).value IN
        /\ possible_words' = filter_possible_words(guess, feedback, possible_words)
        /\ filter_call' = <<guess, feedback, possible_words>>
        /\ truthful' = (truthful /\ get_feedback(guess, target) = feedback)
    /\ entered' = text
    /\ attempt' = attempt + 1
    /\ pc' = "loop"
    /\ UNCHANGED <<dvars, fvars, svars, runs, outcome, printed, word_list,
                   initial_entropy, guess, n_guesses, rejected, target>>

CacheStep ==
    CacheCheck \/ LoadCache \/ ComputeTable \/ DumpOpen \/ DumpWrite
        \/ HashOpen \/ HashWrite

LoopStep == NoPossibleWords \/ EmitGuess \/ OutOfAttempts

InvalidFeedback ==
    /\ pc = "prompt"
    /\ \E text \in PromptTexts(guess, word_list) : FeedbackRejected(text)

ValidFeedback ==
    /\ pc = "prompt"
    /\ \E text \in PromptTexts(guess, word_list) :
          FeedbackSolved(text) \/ FeedbackFilter(text)

PNext ==
    \/ \E pool \in ProgramPools : \E k \in 1..Len(pool) : Start(pool, pool[k])
    \/ CacheStep
    \/ Interrupt
    \/ LoopStep
    \/ InvalidFeedback
    \/ ValidFeedback

ProgramSpec == PInit /\ [][PNext]_vars

\* The scheduling of one session.  RunsOn: the interpreter, standing at the
\* head of the for loop (line 348), goes on to the prompt or to a return.
\* Answered: input() at line 361 returns a line that parse_feedback accepts,
\* so that control leaves the while loop of lines 360-367.  Both are stated
\* on the program counter alone; with PNext such a step is a LoopStep and a
\* ValidFeedback step respectively.
RunsOn == pc = "loop" /\ pc' \in {"prompt", "ended"}

Answered == pc = "prompt" /\ pc' \in {"loop", "ended"}

FairProgramSpec == ProgramSpec /\ WF_pc(RunsOn) /\ WF_pc(Answered)

\* The two fairness conditions ask for steps PNext can take: at the head of
\* the loop one of the three LoopStep branches has its guard true, and at
\* the prompt some text the user may type is accepted.
FairnessRealisable ==
    /\ (pc = "loop") => (attempt <= Attempts)
    /\ (pc = "prompt") =>
          \E text \in PromptTexts(guess, word_list) : ReadFeedback(text).ok

\* ------------------------------------------------------------------------
\* Properties of ProgramSpec
\* ------------------------------------------------------------------------

\* The table maps exactly the words of wl, each to its entropy against wl.
IsExactTable(table, wl) ==
    /\ {table[k][1] : k \in 1..Len(table)} = Range(wl)
    /\ \A j, k \in 1..Len(table) : (table[j][1] = table[k][1]) => (j = k)
    /\ \A k \in 1..Len(table) : table[k][2] = calculate_entropy(table[k][1], wl)

\* C5 as stated: whatever was run and interrupted before, get_initial_entropy
\* never ends in a fatal error, and the table it returns maps each word of
\* the pool to its entropy against the pool.
C5_CacheReturnsExactTable ==
    /\ outcome # "Crashed"
    /\ (pc \in {"loop", "prompt"}) => IsExactTable(initial_entropy, word_list)

\* C6 as stated: a session whose candidates a filter has emptied ends
\* Exhausted with the 'no possible words remaining' message printed, in
\* every round.
C6_EmptySetSignalled ==
    (pc = "ended" /\ possible_words = <<>>) =>
        (outcome = "Exhausted" /\ "no_possible_words" \in printed)

\* C7: the candidates after a filter call are exactly the words of the
\* candidates before it whose feedback for the guess is the pattern, in
\* their order; filtering them again on the same guess and pattern changes
\* nothing; and within a session the candidate list never gains a word, nor
\* does the word list change.
C7_FilterExactAndShrinking ==
    /\ [](filter_call # <<>> =>
            LET g      == filter_call[1]
                p      == filter_call[2]
                before == filter_call[3]
            IN  /\ possible_words =
                      SelectSeq(before, LAMBDA w : get_feedback(g, w) = p)
                /\ Range(possible_words) =
                      {w \in Range(before) : get_feedback(g, w) = p}
                /\ filter_possible_words(g, p, possible_words) = possible_words
                /\ Len(possible_words) <= Len(before))
    /\ [][(runs' = runs) =>
            /\ Len(possible_words') <= Len(possible_words)
            /\ Range(possible_words') \subseteq Range(possible_words)
            /\ word_list' = word_list]_vars

\* A second-round filter that drops some candidates and keeps others.
C7_Witness ==
    /\ filter_call # <<>>
    /\ attempt = 2
    /\ Len(possible_words) > 0
    /\ Len(possible_words) < Len(filter_call[3])
    /\ Len(filter_call[3]) < Len(word_list)

\* The tokens of a text, read off its positions: a token starts where a
\* character that is no separator follows a separator or opens the text.
Normal(text) ==
    [k \in 1..Len(text) |->
        IF text[k] \in {",", " ", "\t"} THEN " " ELSE LowerChar(text[k])]

TokenStarts(text) ==
    {i \in 1..Len(text) :
        Normal(text)[i] # " " /\ (i = 1 \/ Normal(text)[i - 1] = " ")}

TokenAt(text, i) ==
    LET last == CHOOSE j \in i..Len(text) :
                    /\ \A k \in i..j : Normal(text)[k] # " "
                    /\ (j = Len(text) \/ Normal(text)[j + 1] = " ")
    IN  SubSeq(Normal(text), i, last)

Vocabulary ==
    {<<"g">>, <<"y">>, <<"b">>, <<"g", "r", "a", "y">>,
     <<"g", "r", "e", "e", "n">>, <<"y", "e", "l", "l", "o", "w">>}

TextInvalid(text) ==
    \/ Cardinality(TokenStarts(text)) # 5
    \/ \E i \in TokenStarts(text) : TokenAt(text, i) \notin Vocabulary

\* A step that reads one line at the prompt.
InputStep == pc = "prompt" /\ (pc' # "prompt" \/ rejected' = rejected + 1)

\* C8: a text whose token count is not 5 or that holds a token outside
\* {g, y, b, gray, green, yellow} (in any case) is rejected with a
\* ValueError, and the rejection leaves the attempt counter, the guess and
\* the candidates as they were, filters nothing and keeps the same guess
\* awaiting feedback; a text that is not of this kind is not rejected.
C8_InvalidFeedbackRejected ==
    [][InputStep =>
          IF TextInvalid(entered')
          THEN /\ rejected' = rejected + 1
               /\ printed' \ printed \subseteq {"invalid_token", "wrong_count"}
               /\ printed' \cap {"invalid_token", "wrong_count"} # {}
               /\ pc' = "prompt"
               /\ UNCHANGED <<attempt, guess, possible_words, word_list,
                              n_guesses, filter_call, outcome, initial_entropy>>
          ELSE rejected' = rejected]_vars

\* In the second round "g y x b g" has been rejected and the guess still
\* awaits feedback.
C8_Witness ==
    /\ pc = "prompt"
    /\ attempt = 1
    /\ rejected = 1
    /\ entered = TextUnknown
    /\ "invalid_token" \in printed

\* C9: a session that has entered the loop ends Solved or Exhausted, given
\* that every prompt gets a valid pattern in the end; it prints at most 6
\* guesses; it becomes Solved exactly on the all-green pattern 682, without
\* filtering; and once it has ended it prints no further guess.
C9_SessionTerminates ==
    /\ [](pc \in {"loop", "prompt"} =>
            <>(pc = "ended" /\ outcome \in {"Solved", "Exhausted"}))
    /\ [](n_guesses <= 6)
    /\ [][(outcome' = "Solved" /\ outcome # "Solved") =>
            /\ pc = "prompt"
            /\ ReadFeedback(entered').ok
            /\ ReadFeedback(entered').value = 682
            /\ UNCHANGED <<possible_words, filter_call, attempt>>]_vars
    /\ [][(InputStep /\ ReadFeedback(entered').ok
                     /\ ReadFeedback(entered').value = 682) =>
            (pc' = "ended" /\ outcome' = "Solved")]_vars
    /\ [][(pc = "ended" /\ runs' = runs) =>
            UNCHANGED <<pc, outcome, guess, n_guesses, printed>>]_vars

\* A session that printed 6 guesses and ended without solving.
C9_Witness ==
    /\ pc = "ended"
    /\ outcome = "Exhausted"
    /\ n_guesses = 6
    /\ "failed" \in printed

\* C10 as stated: while every feedback entered is the true feedback for a
\* word of the list, that word stays among the candidates, the guess that
\* awaits feedback is one of the candidates, and the session does not end
\* with the 'no possible words remaining' message.
C10_TruthfulSessionInvariant ==
    (truthful /\ pc \in {"loop", "prompt", "ended"}
              /\ outcome \in {"none", "Solved", "Exhausted"}) =>
        /\ target \in Range(possible_words)
        /\ (pc = "prompt") => (guess \in Range(possible_words))
        /\ "no_possible_words" \notin printed

=============================================================================
